---- MODULE Spec2Model ----
(***************************************************************************)
(* IAPWS-08 seawater formulation: the SeaWater class of iapws08.py.        *)
(*                                                                         *)
(* Numbers.  The program computes in floating point.  Here every float is  *)
(* an element of the prime field of Pr elements: +, -, * and / are exact   *)
(* there, as they are over the rationals, every decimal literal of the     *)
(* source has an exact image (Dec, Flt), and a test against zero means     *)
(* what it means for the exact value.  Rounding is not modelled.  Four     *)
(* values lie outside the field: Err (an exception was raised while the    *)
(* expression was evaluated), Cplx (Python 3 gives a complex number for    *)
(* the square root of a number that has no real root), NoneVal (None) and  *)
(* Inf (an IEEE infinity, which Python's division never returns).          *)
(* The inputs keep their order where the code compares them: T is carried  *)
(* in hundredths of a kelvin, P in pascal (1e-6 MPa), S in multiples of    *)
(* the reference salinity S_, so that X = sqrt(S/S_) is exact.             *)
(***************************************************************************)
EXTENDS Integers, Sequences, FiniteSets

VARIABLES
    kwargs,     \* SeaWater.kwargs of the instance: [T, P, S, fast]
    status,     \* SeaWater.status
    msg,        \* SeaWater.msg
    attr,       \* the instance's other attributes, name -> value
    supplied,   \* the keywords the caller has passed so far
    last,       \* what the latest __call__ did: ran, exc, invoked, loc, over
    loop,       \* which series loop is running ("none" outside the loop specs)
    n,          \* the loop's position in its table
    acc,        \* the loop's accumulators
    poly,       \* the entries the loop has consumed, as a coefficient map
    pt          \* the loop's reduced variables [tau, pi, X]

vars == <<kwargs, status, msg, attr, supplied, last, loop, n, acc, poly, pt>>

----------------------------------------------------------------------------
(* Field arithmetic *)

Pr == 46000 + 327

Err == 0 - 1
Cplx == 0 - 2
NoneVal == 0 - 3
Inf == 0 - 4

\* The outcome of an operation on a and b that is not a number.
Bad(a, b) == IF a = Err \/ b = Err THEN Err ELSE Cplx

IsNum(a) == a >= 0

Add(a, b) == IF IsNum(a) /\ IsNum(b) THEN (a + b) % Pr ELSE Bad(a, b)

Neg(a) == IF IsNum(a) THEN (Pr - a) % Pr ELSE a

Sub(a, b) == Add(a, Neg(b))

Mul(a, b) == IF IsNum(a) /\ IsNum(b) THEN (a * b) % Pr ELSE Bad(a, b)

RECURSIVE FPow(_, _)
FPow(a, e) ==
    IF e = 0 THEN 1
    ELSE LET h == FPow(a, e \div 2)
         IN  IF e % 2 = 0 THEN Mul(h, h) ELSE Mul(Mul(h, h), a)

\* The inverse of a # 0, by Euclid's algorithm on (Pr, a): the invariant is
\* r0 = t0 * a and r1 = t1 * a modulo Pr.
RECURSIVE Euclid(_, _, _, _)
Euclid(r0, r1, t0, t1) ==
    IF r1 = 0 THEN t0 % Pr
    ELSE Euclid(r1, r0 % r1, t1, (t0 + (Pr - ((r0 \div r1) % Pr)) * t1) % Pr)

Inv(a) == Euclid(Pr, a, 0, 1)

\* Division as IEEE 754 defines it: a zero divisor gives an infinity.
Div_inf(a, b) ==
    IF IsNum(a) /\ IsNum(b)
    THEN IF b = 0 THEN Inf ELSE Mul(a, Inv(b))
    ELSE Bad(a, b)

\* Python's true division: ZeroDivisionError on a zero divisor.
Div(a, b) ==
    IF IsNum(a) /\ IsNum(b)
    THEN IF b = 0 THEN Err ELSE Mul(a, Inv(b))
    ELSE Bad(a, b)

\* Python's a**e for an integer e: 0.0**0 = 1.0, and a negative e divides.
Pow(a, e) == IF e >= 0 THEN FPow(a, e) ELSE Div(1, FPow(a, 0 - e))

\* a**0.5: the root when there is one (the smaller of the two residues),
\* a complex number otherwise.
HasRoot(a) == \E r \in 0..((Pr - 1) \div 2) : (r * r) % Pr = a
Sqrt(a) ==
    IF ~IsNum(a) THEN a
    ELSE IF HasRoot(a)
    THEN CHOOSE r \in 0..((Pr - 1) \div 2) : (r * r) % Pr = a
    ELSE Cplx

\* The integer i as a float.
Num(i) == i % Pr

\* The decimal literal i * 10^(-d).
Dec(i, d) == Mul(Num(i), FPow(Inv(10), d))

\* The literal sign * 0.<hi><lo> * 10^e, hi seven digits and lo eight.
Flt(sign, hi, lo, e) ==
    Mul(Mul(Num(sign), Add(Mul(Num(hi), Num(100000000)), Num(lo))),
        FPow(Inv(10), 15 - e))

\* math.log on the values X takes here; log(0) is a ValueError.
LogTable == << 0, Dec(69314718, 8), Dec(109861229, 8), Dec(138629436, 8) >>
Log(x) == IF x \in 1..Len(LogTable) THEN LogTable[x] ELSE Err

----------------------------------------------------------------------------
(* Module constants and the inputs' units *)

Rm == Dec(8314472, 6)
Sn == Dec(3516504, 8)
Ms == Dec(314038218, 7)

\* T in hundredths of a kelvin, P in pascal, S in multiples of S_.
S_ == Div(Mul(Sn, Num(40)), Num(35))
FT(T) == Dec(T, 2)
FP(P) == Dec(P, 6)
FS(S) == Mul(Num(S), S_)

----------------------------------------------------------------------------
(* Dictionaries, exceptions and sequential assignment *)

EmptyDict == [k \in {} |-> 0]

\* d[k] = v
Put(d, k, v) == [x \in (DOMAIN d) \cup {k} |-> IF x = k THEN v ELSE d[x]]

\* d[k]; a missing key is a KeyError.
Get(d, k) == IF k \in DOMAIN d THEN d[k] ELSE Err

\* A call that ended in an exception raised at the given source line.
Raise(line) == [exc |-> line]
IsExc(r) == "exc" \in DOMAIN r

\* Run the assignments <<line, name, value>> in order on d.  The first one whose
\* right-hand side raised stops the run: the earlier ones stay done.
RECURSIVE Exec(_, _, _)
Exec(d, steps, i) ==
    IF i > Len(steps) THEN [d |-> d, exc |-> 0]
    ELSE IF steps[i][3] = Err THEN [d |-> d, exc |-> steps[i][1]]
    ELSE Exec(Put(d, steps[i][2], steps[i][3]), steps, i + 1)

\* The eight keys, in the order the three term functions insert them.
KeyOrder == << "g", "gt", "gp", "gtt", "gtp", "gpp", "gs", "gsp" >>
Keys == { KeyOrder[i] : i \in 1..Len(KeyOrder) }

Min2(a, b) == IF a <= b THEN a ELSE b
MinOf(S) == CHOOSE x \in S : \A y \in S : x <= y

----------------------------------------------------------------------------
(* Coefficient tables *)

WaterJ ==
    << 0, 0, 0, 0, 0, 0, 0, 1, 1, 1, 1, 1, 1, 2, 2, 2, 2, 2, 2, 3, 3, 3,
       3, 3, 3, 4, 4, 4, 4, 4, 5, 5, 5, 5, 5, 6, 6, 6, 6, 7, 7 >>

WaterK ==
    << 0, 1, 2, 3, 4, 5, 6, 0, 1, 2, 3, 4, 5, 0, 1, 2, 3, 4, 5, 0, 1, 2,
       3, 4, 5, 0, 1, 2, 3, 4, 0, 1, 2, 3, 4, 0, 1, 2, 3, 0, 1 >>

WaterG ==
    << Flt(1, 1013427, 43139674, 3), Flt(1, 1000156, 95367145, 6),
       Flt(0 - 1, 2544576, 54203630, 4), Flt(1, 2845177, 78446287, 3),
       Flt(0 - 1, 3331467, 54253611, 2), Flt(1, 4202631, 8803084, 1),
       Flt(0 - 1, 5464285, 11471039, 0), Flt(1, 5905783, 47909402, 1),
       Flt(0 - 1, 2709838, 5184062, 3), Flt(1, 7761536, 11613101, 3),
       Flt(0 - 1, 1965125, 50881220, 3), Flt(1, 2897965, 26294175, 2),
       Flt(0 - 1, 2132900, 83518327, 1), Flt(0 - 1, 1235778, 59330390, 5),
       Flt(1, 1455036, 45404680, 4), Flt(0 - 1, 7565583, 85769359, 3),
       Flt(1, 2734796, 62323528, 3), Flt(0 - 1, 5556040, 63817218, 2),
       Flt(1, 4344206, 71917197, 1), Flt(1, 7367412, 4151612, 3),
       Flt(0 - 1, 6725077, 83145070, 3), Flt(1, 4993603, 90819152, 3),
       Flt(0 - 1, 2395453, 30654412, 3), Flt(1, 4880125, 18593872, 2),
       Flt(0 - 1, 1663071, 6208905, 1), Flt(0 - 1, 1481859, 36433658, 3),
       Flt(1, 3979684, 45406972, 3), Flt(0 - 1, 3018153, 80621876, 3),
       Flt(1, 1521963, 71733841, 3), Flt(0 - 1, 2637483, 77232802, 2),
       Flt(1, 5802591, 25842571, 2), Flt(0 - 1, 1946183, 10617595, 3),
       Flt(1, 1205206, 54902025, 3), Flt(0 - 1, 5527230, 52340152, 2),
       Flt(1, 6481906, 68077221, 1), Flt(0 - 1, 1898438, 46514172, 2),
       Flt(1, 6351139, 36641785, 2), Flt(0 - 1, 2228973, 17140459, 2),
       Flt(1, 8170605, 41818112, 1), Flt(1, 3050816, 46487967, 1),
       Flt(0 - 1, 9631081, 19393062, 1) >>

SalineI ==
    << 1, 2, 3, 4, 5, 6, 7, 1, 2, 3, 4, 5, 6, 2, 3, 4, 2, 3, 4, 2, 3, 4,
       2, 4, 2, 2, 3, 4, 5, 2, 3, 4, 2, 3, 2, 3, 2, 3, 2, 3, 4, 2, 3, 2,
       3, 2, 2, 2, 3, 4, 2, 3, 2, 3, 2, 2, 2, 3, 2, 2, 2, 2, 2, 2 >>

SalineJ ==
    << 0, 0, 0, 0, 0, 0, 0, 1, 1, 1, 1, 1, 1, 2, 2, 2, 3, 3, 3, 4, 4, 4,
       5, 5, 6, 0, 0, 0, 0, 1, 1, 1, 2, 2, 3, 3, 4, 4, 0, 0, 0, 1, 1, 2,
       2, 3, 4, 0, 0, 0, 1, 1, 2, 2, 3, 4, 0, 0, 1, 2, 3, 0, 1, 2 >>

SalineK ==
    << 0, 0, 0, 0, 0, 0, 0, 0, 0, 0, 0, 0, 0, 0, 0, 0, 0, 0, 0, 0, 0, 0,
       0, 0, 0, 1, 1, 1, 1, 1, 1, 1, 1, 1, 1, 1, 1, 1, 2, 2, 2, 2, 2, 2,
       2, 2, 2, 3, 3, 3, 3, 3, 3, 3, 3, 3, 4, 4, 4, 4, 4, 5, 5, 5 >>

SalineG ==
    << Flt(1, 5812814, 56626732, 4), Flt(1, 1416276, 48484197, 4),
       Flt(0 - 1, 2432146, 62381794, 4), Flt(1, 2025801, 15603697, 4),
       Flt(0 - 1, 1091668, 41042967, 4), Flt(1, 3746012, 37877840, 3),
       Flt(0 - 1, 4858910, 69025409, 2), Flt(1, 8512267, 34946706, 3),
       Flt(1, 1680724, 8311545, 3), Flt(0 - 1, 4934075, 10141682, 3),
       Flt(1, 5438353, 33000098, 3), Flt(0 - 1, 1960283, 6689776, 3),
       Flt(1, 3675716, 22995805, 2), Flt(1, 8800313, 52997204, 3),
       Flt(0 - 1, 4306646, 75978042, 2), Flt(0 - 1, 6855725, 9204491, 2),
       Flt(0 - 1, 2252676, 49263401, 3), Flt(0 - 1, 1002273, 70861875, 2),
       Flt(1, 4936676, 94856254, 2), Flt(1, 9142604, 47751259, 2),
       Flt(1, 8756006, 61808945, 0), Flt(0 - 1, 1713975, 77419788, 2),
       Flt(0 - 1, 2166032, 40875311, 2), Flt(1, 2496970, 9569508, 1),
       Flt(1, 2130169, 70847183, 1), Flt(0 - 1, 3310491, 54044839, 4),
       Flt(1, 1994596, 3073901, 3), Flt(0 - 1, 5479191, 33532887, 2),
       Flt(1, 3602841, 95611086, 2), Flt(1, 7291165, 29735046, 3),
       Flt(0 - 1, 1752920, 41186547, 3), Flt(0 - 1, 2266835, 58512829, 2),
       Flt(0 - 1, 8607643, 3783977, 3), Flt(1, 3830580, 66002476, 3),
       Flt(1, 6942448, 14133268, 3), Flt(0 - 1, 4603199, 31801257, 3),
       Flt(0 - 1, 2977287, 41987187, 3), Flt(1, 2345651, 87611355, 3),
       Flt(1, 3847941, 52978599, 3), Flt(0 - 1, 5229409, 9281335, 2),
       Flt(0 - 1, 4081939, 78912261, 1), Flt(0 - 1, 3439569, 2961561, 3),
       Flt(1, 8319239, 27801819, 2), Flt(1, 3374095, 30269367, 3),
       Flt(0 - 1, 5419172, 62517112, 2), Flt(0 - 1, 2048896, 41964903, 3),
       Flt(1, 7472614, 11387560, 2), Flt(0 - 1, 9653243, 20107458, 2),
       Flt(1, 6804449, 42726459, 2), Flt(0 - 1, 3017551, 11971161, 2),
       Flt(1, 1246876, 71116248, 3), Flt(0 - 1, 2948306, 43494290, 2),
       Flt(0 - 1, 1783145, 56207638, 3), Flt(1, 2563984, 87389914, 2),
       Flt(1, 1135616, 97840594, 3), Flt(0 - 1, 3648729, 19001588, 2),
       Flt(1, 1584081, 72766824, 2), Flt(0 - 1, 3412519, 32441282, 1),
       Flt(0 - 1, 3165696, 43860730, 2), Flt(1, 4420403, 58308000, 2),
       Flt(0 - 1, 1112827, 34326413, 2), Flt(0 - 1, 2624801, 56590992, 1),
       Flt(1, 7046588, 3315449, 1), Flt(0 - 1, 7920015, 47211682, 1) >>

\* zip() stops at the shortest list.
WaterLen == Min2(Len(WaterJ), Min2(Len(WaterK), Len(WaterG)))
SalineLen ==
    Min2(Min2(Len(SalineI), Len(SalineJ)), Min2(Len(SalineK), Len(SalineG)))

----------------------------------------------------------------------------
(* Series evaluation *)

\* The accumulators of a loop.  hits and low are not in the program: hits is
\* the set of accumulators the latest entry has added to, low the least
\* exponent of tau or pi any evaluated power has had.
Acc0 ==
    [g |-> 0, gt |-> 0, gp |-> 0, gtt |-> 0, gtp |-> 0, gpp |-> 0,
     gs |-> 0, gsp |-> 0, hits |-> {}, low |-> 0]

\* What one entry does to one accumulator: nothing (its "if" is closed), or
\* += v, where v holds powers of tau and pi with the exponents e.
Off == [on |-> FALSE, v |-> 0, e |-> {0}]
On(v, e) == [on |-> TRUE, v |-> v, e |-> e]

\* The accumulators a after the additions c, one per accumulator.
Accumulate(a, c) ==
    [g |-> IF c.g.on THEN Add(a.g, c.g.v) ELSE a.g,
     gt |-> IF c.gt.on THEN Add(a.gt, c.gt.v) ELSE a.gt,
     gp |-> IF c.gp.on THEN Add(a.gp, c.gp.v) ELSE a.gp,
     gtt |-> IF c.gtt.on THEN Add(a.gtt, c.gtt.v) ELSE a.gtt,
     gtp |-> IF c.gtp.on THEN Add(a.gtp, c.gtp.v) ELSE a.gtp,
     gpp |-> IF c.gpp.on THEN Add(a.gpp, c.gpp.v) ELSE a.gpp,
     gs |-> IF c.gs.on THEN Add(a.gs, c.gs.v) ELSE a.gs,
     gsp |-> IF c.gsp.on THEN Add(a.gsp, c.gsp.v) ELSE a.gsp,
     hits |-> { x \in Keys : c[x].on },
     low |-> MinOf({a.low} \cup UNION { c[x].e : x \in Keys })]

\* WaterSuppTerm with the "if j >= 1" of gt left out.
WaterSuppTerm_ungated(a, j, k, gi, tau, pi) ==
    Accumulate(a,
      [g |-> On(Mul(Mul(gi, Pow(tau, j)), Pow(pi, k)), {j, k}),
       gt |-> On(Mul(Mul(Mul(gi, Num(j)), Pow(tau, j - 1)), Pow(pi, k)),
                 {j - 1, k}),
       gp |-> IF k >= 1
              THEN On(Mul(Mul(Mul(Num(k), gi), Pow(tau, j)), Pow(pi, k - 1)),
                      {j, k - 1})
              ELSE Off,
       gtt |-> IF j >= 2
               THEN On(Mul(Mul(Mul(Num(j * (j - 1)), gi), Pow(tau, j - 2)),
                           Pow(pi, k)),
                       {j - 2, k})
               ELSE Off,
       gtp |-> IF j >= 1 /\ k >= 1
               THEN On(Mul(Mul(Mul(Num(j * k), gi), Pow(tau, j - 1)),
                           Pow(pi, k - 1)),
                       {j - 1, k - 1})
               ELSE Off,
       gpp |-> IF k >= 2
               THEN On(Mul(Mul(Mul(Num(k * (k - 1)), gi), Pow(tau, j)),
                           Pow(pi, k - 2)),
                       {j, k - 2})
               ELSE Off,
       gs |-> Off,
       gsp |-> Off])

\* One pass of the loop of _waterSupp, over the entry (j, k, gi).
WaterSuppTerm(a, j, k, gi, tau, pi) ==
    Accumulate(a,
      [g |-> On(Mul(Mul(gi, Pow(tau, j)), Pow(pi, k)), {j, k}),
       gt |-> IF j >= 1
              THEN On(Mul(Mul(Mul(gi, Num(j)), Pow(tau, j - 1)), Pow(pi, k)),
                      {j - 1, k})
              ELSE Off,
       gp |-> IF k >= 1
              THEN On(Mul(Mul(Mul(Num(k), gi), Pow(tau, j)), Pow(pi, k - 1)),
                      {j, k - 1})
              ELSE Off,
       gtt |-> IF j >= 2
               THEN On(Mul(Mul(Mul(Num(j * (j - 1)), gi), Pow(tau, j - 2)),
                           Pow(pi, k)),
                       {j - 2, k})
               ELSE Off,
       gtp |-> IF j >= 1 /\ k >= 1
               THEN On(Mul(Mul(Mul(Num(j * k), gi), Pow(tau, j - 1)),
                           Pow(pi, k - 1)),
                       {j - 1, k - 1})
               ELSE Off,
       gpp |-> IF k >= 2
               THEN On(Mul(Mul(Mul(Num(k * (k - 1)), gi), Pow(tau, j)),
                           Pow(pi, k - 2)),
                       {j, k - 2})
               ELSE Off,
       gs |-> Off,
       gsp |-> Off])

\* SalineTerm with the "if k >= 1" of gp and gsp left out.
SalineTerm_ungated(a, i, j, k, gi, X, tau, pi) ==
    Accumulate(a,
      [g |-> IF i = 1
             THEN On(Mul(Mul(Mul(Mul(gi, Pow(X, 2)), Log(X)), Pow(tau, j)),
                         Pow(pi, k)),
                     {j, k})
             ELSE On(Mul(Mul(Mul(gi, Pow(X, i)), Pow(tau, j)), Pow(pi, k)),
                     {j, k}),
       gs |-> IF i = 1
              THEN On(Mul(Mul(Mul(gi, Add(Mul(Num(2), Log(X)), Num(1))),
                              Pow(tau, j)), Pow(pi, k)),
                      {j, k})
              ELSE On(Mul(Mul(Mul(Mul(Num(i), gi), Pow(X, i - 2)),
                              Pow(tau, j)), Pow(pi, k)),
                      {j, k}),
       gt |-> IF j >= 1
              THEN IF i = 1
                   THEN On(Mul(Mul(Mul(Mul(Mul(gi, Pow(X, 2)), Log(X)),
                                       Num(j)), Pow(tau, j - 1)), Pow(pi, k)),
                           {j - 1, k})
                   ELSE On(Mul(Mul(Mul(Mul(gi, Pow(X, i)), Num(j)),
                                   Pow(tau, j - 1)), Pow(pi, k)),
                           {j - 1, k})
              ELSE Off,
       gp |-> On(Mul(Mul(Mul(Mul(Num(k), gi), Pow(X, i)), Pow(tau, j)),
                     Pow(pi, k - 1)),
                 {j, k - 1}),
       gsp |-> On(Mul(Mul(Mul(Mul(Num(i * k), gi), Pow(X, i - 2)),
                          Pow(tau, j)), Pow(pi, k - 1)),
                  {j, k - 1}),
       gtt |-> IF j >= 2
               THEN On(Mul(Mul(Mul(Mul(Num(j * (j - 1)), gi), Pow(X, i)),
                               Pow(tau, j - 2)), Pow(pi, k)),
                       {j - 2, k})
               ELSE Off,
       gtp |-> IF j >= 1 /\ k >= 1
               THEN On(Mul(Mul(Mul(Mul(Num(j * k), gi), Pow(X, i)),
                               Pow(tau, j - 1)), Pow(pi, k - 1)),
                       {j - 1, k - 1})
               ELSE Off,
       gpp |-> IF k >= 2
               THEN On(Mul(Mul(Mul(Mul(Num(k * (k - 1)), gi), Pow(X, i)),
                               Pow(tau, j)), Pow(pi, k - 2)),
                       {j, k - 2})
               ELSE Off])

\* One pass of the loop of _saline, over the entry (i, j, k, gi).
SalineTerm(a, i, j, k, gi, X, tau, pi) ==
    Accumulate(a,
      [g |-> IF i = 1
             THEN On(Mul(Mul(Mul(Mul(gi, Pow(X, 2)), Log(X)), Pow(tau, j)),
                         Pow(pi, k)),
                     {j, k})
             ELSE On(Mul(Mul(Mul(gi, Pow(X, i)), Pow(tau, j)), Pow(pi, k)),
                     {j, k}),
       gs |-> IF i = 1
              THEN On(Mul(Mul(Mul(gi, Add(Mul(Num(2), Log(X)), Num(1))),
                              Pow(tau, j)), Pow(pi, k)),
                      {j, k})
              ELSE On(Mul(Mul(Mul(Mul(Num(i), gi), Pow(X, i - 2)),
                              Pow(tau, j)), Pow(pi, k)),
                      {j, k}),
       gt |-> IF j >= 1
              THEN IF i = 1
                   THEN On(Mul(Mul(Mul(Mul(Mul(gi, Pow(X, 2)), Log(X)),
                                       Num(j)), Pow(tau, j - 1)), Pow(pi, k)),
                           {j - 1, k})
                   ELSE On(Mul(Mul(Mul(Mul(gi, Pow(X, i)), Num(j)),
                                   Pow(tau, j - 1)), Pow(pi, k)),
                           {j - 1, k})
              ELSE Off,
       gp |-> IF k >= 1
              THEN On(Mul(Mul(Mul(Mul(Num(k), gi), Pow(X, i)), Pow(tau, j)),
                          Pow(pi, k - 1)),
                      {j, k - 1})
              ELSE Off,
       gsp |-> IF k >= 1
               THEN On(Mul(Mul(Mul(Mul(Num(i * k), gi), Pow(X, i - 2)),
                               Pow(tau, j)), Pow(pi, k - 1)),
                       {j, k - 1})
               ELSE Off,
       gtt |-> IF j >= 2
               THEN On(Mul(Mul(Mul(Mul(Num(j * (j - 1)), gi), Pow(X, i)),
                               Pow(tau, j - 2)), Pow(pi, k)),
                       {j - 2, k})
               ELSE Off,
       gtp |-> IF j >= 1 /\ k >= 1
               THEN On(Mul(Mul(Mul(Mul(Num(j * k), gi), Pow(X, i)),
                               Pow(tau, j - 1)), Pow(pi, k - 1)),
                       {j - 1, k - 1})
               ELSE Off,
       gpp |-> IF k >= 2
               THEN On(Mul(Mul(Mul(Mul(Num(k * (k - 1)), gi), Pow(X, i)),
                               Pow(tau, j)), Pow(pi, k - 2)),
                       {j, k - 2})
               ELSE Off])

\* tau = (T-273.15)/40 and pi = (P-0.101325)/100
ReducedT(T) == Div(Sub(FT(T), Dec(27315, 2)), Num(40))
ReducedP(P) == Div(Sub(FP(P), Dec(101325, 6)), Num(100))

\* The loop of _waterSupp over the entries lo..hi of zip(J, K, G), in order
\* (split in halves, the first half evaluated before the second is entered,
\* which keeps the evaluation shallow).
RECURSIVE WaterSuppLoop(_, _, _, _, _)
WaterSuppLoop(a, lo, hi, tau, pi) ==
    IF lo > hi THEN a
    ELSE IF lo = hi
    THEN WaterSuppTerm(a, WaterJ[lo], WaterK[lo], WaterG[lo], tau, pi)
    ELSE LET mid == (lo + hi) \div 2
         IN  CHOOSE r \in { WaterSuppLoop(left, mid + 1, hi, tau, pi) :
                             left \in { WaterSuppLoop(a, lo, mid, tau, pi) } } :
                 TRUE

\* The loop of _saline over the entries lo..hi of zip(I, J, K, G), in order.
RECURSIVE SalineLoop(_, _, _, _, _, _)
SalineLoop(a, lo, hi, X, tau, pi) ==
    IF lo > hi THEN a
    ELSE IF lo = hi
    THEN SalineTerm(a, SalineI[lo], SalineJ[lo], SalineK[lo], SalineG[lo],
                    X, tau, pi)
    ELSE LET mid == (lo + hi) \div 2
         IN  CHOOSE r \in { SalineLoop(left, mid + 1, hi, X, tau, pi) :
                             left \in { SalineLoop(a, lo, mid, X, tau, pi) } } :
                 TRUE

\* The loops from their first entry to their last.  (Taking tau, pi and X
\* from one-element sets has them evaluated once, before the loop.)
WaterSuppSum(tau, pi) ==
    CHOOSE r \in { WaterSuppLoop(Acc0, 1, WaterLen, t, p) :
                      t \in {tau}, p \in {pi} } : TRUE

SalineSum(len, X, tau, pi) ==
    IF len = 0 THEN Acc0
    ELSE CHOOSE r \in { SalineLoop(Acc0, 1, len, x, t, p) :
                          x \in {X}, t \in {tau}, p \in {pi} } : TRUE

----------------------------------------------------------------------------
(* The three term functions *)

\* prop = {} ... return prop of _waterSupp, from the accumulators a.
WaterSuppProp(a) ==
    LET r == Exec(EmptyDict,
                 << <<238, "g", Mul(a.g, Dec(1, 3))>>,
                    <<239, "gt", Mul(Div(a.gt, Num(40)), Dec(1, 3))>>,
                    <<240, "gp", Mul(Div(a.gp, Num(100)), Dec(1, 6))>>,
                    <<241, "gtt",
                      Mul(Div(a.gtt, Pow(Num(40), 2)), Dec(1, 3))>>,
                    <<242, "gtp",
                      Mul(Div(Div(a.gtp, Num(40)), Num(100)), Dec(1, 6))>>,
                    <<243, "gpp",
                      Mul(Div(a.gpp, Pow(Num(100), 2)), Dec(1, 6))>>,
                    <<244, "gs", 0>>,
                    <<245, "gsp", 0>> >>, 1)
    IN  IF r.exc # 0 THEN Raise(r.exc) ELSE r.d

\* SeaWater._waterSupp
_waterSupp(T, P) ==
    CHOOSE r \in { WaterSuppProp(a) :
                      a \in { WaterSuppSum(ReducedT(T), ReducedP(P)) } } : TRUE

\* prop = {} ... return prop of _saline, from the accumulators a.
SalineProp(a) ==
    LET r == Exec(EmptyDict,
                 << <<315, "g", Mul(a.g, Dec(1, 3))>>,
                    <<316, "gt", Mul(Div(a.gt, Num(40)), Dec(1, 3))>>,
                    <<317, "gp", Mul(Div(a.gp, Num(100)), Dec(1, 6))>>,
                    <<318, "gtt",
                      Mul(Div(a.gtt, Pow(Num(40), 2)), Dec(1, 3))>>,
                    <<319, "gtp",
                      Mul(Div(Div(a.gtp, Num(40)), Num(100)), Dec(1, 6))>>,
                    <<320, "gpp",
                      Mul(Div(a.gpp, Pow(Num(100), 2)), Dec(1, 6))>>,
                    <<321, "gs",
                      Mul(Div(Div(a.gs, S_), Num(2)), Dec(1, 3))>>,
                    <<322, "gsp",
                      Mul(Div(Div(Div(a.gsp, S_), Num(2)), Num(100)),
                          Dec(1, 6))>> >>, 1)
    IN  IF r.exc # 0 THEN Raise(r.exc) ELSE r.d

\* "if S != 0": how many entries of the table the loop of _saline runs over.
SalineEntries_unguarded(S) == SalineLen

SalineEntries(S) == IF S # 0 THEN SalineLen ELSE 0

\* SeaWater._saline
_saline(T, P, S) ==
    CHOOSE r \in { SalineProp(a) :
                      a \in { SalineSum(SalineEntries(S), Sqrt(Div(FS(S), S_)),
                                        ReducedT(T), ReducedP(P)) } } : TRUE

(***************************************************************************)
(* The pure-water equation of state, IAPWS95(P=P, T=T), is not part of     *)
(* iapws08.py.  It is a deterministic function of (T, P) that returns h,   *)
(* s, rho, cp, betas and w or raises.  The one below is ordinary at most   *)
(* points; at four points its output is chosen so that each failure of     *)
(* calculo can happen: it raises, it returns cp = 0, and it returns the    *)
(* density and the sound speed that make the combined gp, respectively the *)
(* sound-speed denominator, vanish at S = S_.                              *)
(***************************************************************************)
EosT0 == 27315
EosT1 == 31315
EosT2 == 35315
EosP1 == 100101325

EosOrdinary(T, P) ==
    [h |-> Mul(Num(4), Sub(FT(T), Dec(27315, 2))), s |-> Dec(4, 1),
     rho |-> Num(1000), cp |-> Num(4), betas |-> Dec(3, 2),
     w |-> Num(1500)]

\* The saline set at S = S_ at the two points where the density and the
\* sound speed are chosen against it.
SalineAtT0 == _saline(EosT0, EosP1, 1)
SalineAtT1 == _saline(EosT1, EosP1, 1)

\* The density at which 1/rho cancels the saline gp at (EosT0, EosP1).
EosRho == Div(1, Neg(SalineAtT0.gp))

\* The heat capacity at (EosT1, EosP1), and the sound speed there: with them
\* and the saline set ps the combined set has gtp^2 = gtt*1000*gpp*1e-6.
EosCp == Num(5)
EosSound(o, ps) ==
    LET gttc == Add(Div(Neg(EosCp), FT(EosT1)), ps.gtt)
        gtpc == Add(Div(Mul(o.betas, EosCp), FT(EosT1)), ps.gtp)
        gppc == Div(Pow(gtpc, 2), Mul(gttc, Dec(1, 3)))
        q == Sub(Neg(Sub(gppc, ps.gpp)),
                 Div(Mul(Mul(Pow(o.betas, 2), Num(1000)), EosCp), FT(EosT1)))
    IN  Div(Sqrt(Div(Num(1000000), q)), o.rho)
EosW == EosSound(EosOrdinary(EosT1, EosP1), SalineAtT1)

IAPWS95(T, P) ==
    LET o == EosOrdinary(T, P)
    IN  IF T = EosT2 /\ P = EosP1 THEN Raise(185)
        ELSE IF T = EosT2 /\ P # EosP1 THEN [o EXCEPT !.cp = 0]
        ELSE IF T = EosT0 /\ P = EosP1 THEN [o EXCEPT !.rho = EosRho]
        ELSE IF T = EosT1 /\ P = EosP1
        THEN [o EXCEPT !.cp = EosCp, !.w = EosW]
        ELSE o

\* prop = {} ... return prop of _water, from what IAPWS95 returned.
WaterProp(water, fT) ==
    IF IsExc(water) THEN water
    ELSE LET r == Exec(EmptyDict,
             << <<187, "g", Sub(water.h, Mul(fT, water.s))>>,
                <<188, "gt", Neg(water.s)>>,
                <<189, "gp", Div(Num(1), water.rho)>>,
                <<190, "gtt", Div(Neg(water.cp), fT)>>,
                <<191, "gtp", Div(Mul(water.betas, water.cp), fT)>>,
                <<192, "gpp",
                  Sub(Div(Neg(Num(1000000)),
                          Pow(Mul(water.rho, water.w), 2)),
                      Div(Mul(Mul(Pow(water.betas, 2), Num(1000)),
                              water.cp), fT))>>,
                <<193, "gs", 0>>,
                <<194, "gsp", 0>> >>, 1)
         IN  IF r.exc # 0 THEN Raise(r.exc) ELSE r.d

\* SeaWater._water
_water(T, P) ==
    CHOOSE r \in { WaterProp(water, FT(T)) : water \in { IAPWS95(T, P) } } :
        TRUE

----------------------------------------------------------------------------
(* SeaWater.calculo *)

\* The strategy chosen by the flag alone.
UseFast_flag(fast, T) == fast

\* The pure-water strategy: the fast series or the equation of state.
UseFast(fast, T) == fast /\ T <= 31315

\* The summation done in place on pw: prop = pw; prop[key] += ps[key].
Summation_alias(pw, ps) ==
    LET ks == SelectSeq(KeyOrder, LAMBDA k : k \in DOMAIN pw)
        steps == [i \in 1..Len(ks) |->
                     <<149, ks[i], Add(pw[ks[i]], Get(ps, ks[i]))>>]
        r == Exec(pw, steps, 1)
    IN  [prop |-> r.d, exc |-> r.exc, pw |-> r.d, ps |-> ps]

\* prop[key] = pw[key]+ps[key] for key in pw, and what pw and ps are after it.
Summation(pw, ps) ==
    LET ks == SelectSeq(KeyOrder, LAMBDA k : k \in DOMAIN pw)
        steps == [i \in 1..Len(ks) |->
                     <<149, ks[i], Add(pw[ks[i]], Get(ps, ks[i]))>>]
        r == Exec(EmptyDict, steps, 1)
    IN  [prop |-> r.d, exc |-> r.exc, pw |-> pw, ps |-> ps]

\* self.rho = ... to self.w = ...
Derived(prop, fT, fP) ==
    LET g == Get(prop, "g")
        gt == Get(prop, "gt")
        gp == Get(prop, "gp")
        gtt == Get(prop, "gtt")
        gtp == Get(prop, "gtp")
        gpp == Get(prop, "gpp")
    IN  << <<154, "rho", Div(Num(1), gp)>>,
           <<155, "v", gp>>,
           <<156, "s", Neg(gt)>>,
           <<157, "cp", Mul(Neg(fT), gtt)>>,
           <<158, "h", Sub(g, Mul(fT, gt))>>,
           <<159, "u",
             Sub(Sub(g, Mul(fT, gt)), Mul(Mul(fP, Num(1000)), gp))>>,
           <<160, "a", Sub(g, Mul(Mul(fP, Num(1000)), gp))>>,
           <<161, "alfa", Div(gtp, gp)>>,
           <<162, "betas", Div(Neg(gtp), gtt)>>,
           <<163, "kt", Div(Neg(gpp), gp)>>,
           <<164, "ks",
             Div(Div(Sub(Pow(gtp, 2), Mul(gt, gpp)), gp), gtt)>>,
           <<166, "w",
             Mul(gp, Sqrt(Div(Mul(gtt, Num(1000)),
                              Sub(Pow(gtp, 2),
                                  Mul(Mul(Mul(gtt, Num(1000)), gpp),
                                      Dec(1, 6))))))>> >>

\* "if S:" without its else branch.
SalinityOutputs_noelse(S, prop, ps, m, fS, fT) ==
    LET g == Get(prop, "g")
        gs == Get(prop, "gs")
    IN  IF S # 0
        THEN << <<170, "mu", gs>>,
                <<171, "muw", Sub(g, Mul(fS, gs))>>,
                <<172, "mus", Add(g, Mul(Sub(Num(1), fS), gs))>>,
                <<173, "osm",
                  Div(Div(Div(Neg(Sub(Get(ps, "g"), Mul(fS, gs))), m), Rm),
                      fT)>>,
                <<174, "haline",
                  Div(Neg(Get(prop, "gsp")), Get(prop, "gp"))>> >>
        ELSE << >>

\* if S: ... else: ...
SalinityOutputs(S, prop, ps, m, fS, fT) ==
    LET g == Get(prop, "g")
        gs == Get(prop, "gs")
    IN  IF S # 0
        THEN << <<170, "mu", gs>>,
                <<171, "muw", Sub(g, Mul(fS, gs))>>,
                <<172, "mus", Add(g, Mul(Sub(Num(1), fS), gs))>>,
                <<173, "osm",
                  Div(Div(Div(Neg(Sub(Get(ps, "g"), Mul(fS, gs))), m), Rm),
                      fT)>>,
                <<174, "haline",
                  Div(Neg(Get(prop, "gsp")), Get(prop, "gp"))>> >>
        ELSE << <<176, "mu", NoneVal>>,
                <<177, "muw", NoneVal>>,
                <<178, "mus", NoneVal>>,
                <<179, "osm", NoneVal>>,
                <<180, "haline", NoneVal>> >>

NoDicts == [pw |-> EmptyDict, ps |-> EmptyDict, prop |-> EmptyDict,
            pwRet |-> EmptyDict, psRet |-> EmptyDict]

\* calculo from "prop = {}" on: the attributes it sets (name -> value), the
\* line that raised (0: none), the helpers called, its locals pw, ps and prop
\* and what the helpers had returned.
Compose(kw, m, first, pw, ps) ==
    LET sum == Summation(pw, ps)
        at1 == Exec(EmptyDict,
                    [i \in 1..Len(KeyOrder) |->
                        <<150, KeyOrder[i], Get(sum.prop, KeyOrder[i])>>],
                    1).d
        body == << <<152, "T", kw.T>>, <<153, "P", kw.P>> >>
                    \o Derived(sum.prop, FT(kw.T), FP(kw.P))
                    \o SalinityOutputs(kw.S, sum.prop, ps, m, FS(kw.S),
                                       FT(kw.T))
        r == Exec(at1, body, 1)
        loc == [pw |-> sum.pw, ps |-> sum.ps, prop |-> sum.prop,
                pwRet |-> pw, psRet |-> ps]
    IN  IF IsExc(pw)
        THEN [attr |-> EmptyDict, exc |-> pw.exc, invoked |-> <<first>>,
              loc |-> NoDicts]
        ELSE IF IsExc(ps)
        THEN [attr |-> EmptyDict, exc |-> ps.exc,
              invoked |-> <<first, "_saline">>,
              loc |-> [NoDicts EXCEPT !.pw = pw, !.pwRet = pw]]
        ELSE IF sum.exc # 0
        THEN [attr |-> at1, exc |-> sum.exc,
              invoked |-> <<first, "_saline">>, loc |-> loc]
        ELSE [attr |-> r.d, exc |-> r.exc,
              invoked |-> <<first, "_saline">>, loc |-> loc]

\* SeaWater.calculo on the stored inputs kw.
calculo(kw) ==
    LET fS == FS(kw.S)
        m == Div(Div(fS, Sub(Num(1), fS)), Ms)
        fast == UseFast(kw.fast, kw.T)
    IN  IF m = Err
        THEN [attr |-> EmptyDict, exc |-> 140, invoked |-> <<>>,
              loc |-> NoDicts]
        ELSE CHOOSE r \in
                 { Compose(kw, m, IF fast THEN "_waterSupp" ELSE "_water",
                           pw, ps) :
                     pw \in { IF fast THEN _waterSupp(kw.T, kw.P)
                              ELSE _water(kw.T, kw.P) },
                     ps \in { _saline(kw.T, kw.P, kw.S) } } : TRUE

----------------------------------------------------------------------------
(* SeaWater.__init__ and SeaWater.__call__ *)

MaxTau == 2
MaxX == 1

\* The values a caller passes: T = 273.15 + 40 i K, P = 0.101325 + 100 i MPa,
\* S = x^2 S_, so that tau, pi and X are whole numbers.
TIn == { 27315 + 4000 * i : i \in 0..MaxTau }
PIn == { 101325, 101325 + 100000000 }
SIn == { x * x : x \in 0..MaxX }
Absent == 0 - 5
Opt(S) == S \cup {Absent}

\* calculo is a function of the stored inputs alone; its results on the
\* inputs a caller can have stored.
Stored == [T : TIn, P : PIn, S : SIn, fast : BOOLEAN]
Computed == { <<kw, calculo(kw)>> : kw \in Stored }
Outcome(kw) == (CHOOSE c \in Computed : c[1] = kw)[2]

\* The keyword arguments of a call: a dictionary on the keywords passed.
Kw(t, p, s, f) ==
    LET ks == (IF t # Absent THEN {"T"} ELSE {}) \cup
              (IF p # Absent THEN {"P"} ELSE {}) \cup
              (IF s # Absent THEN {"S"} ELSE {}) \cup
              (IF f # Absent THEN {"fast"} ELSE {})
    IN  [k \in ks |-> IF k = "T" THEN t
                      ELSE IF k = "P" THEN p
                      ELSE IF k = "S" THEN s
                      ELSE f = 1]

\* self.kwargs.update(kwargs)
Update(d, kw) == [k \in DOMAIN d |-> IF k \in DOMAIN kw THEN kw[k] ELSE d[k]]

\* The dictionary d after the assignments e.
Update2(d, e) ==
    [k \in (DOMAIN d) \cup (DOMAIN e) |-> IF k \in DOMAIN e THEN e[k] ELSE d[k]]

\* The test with "self.kwargs["S"]" in place of "... is not None".
Complete_truthy(kw) == kw.T # 0 /\ kw.P # 0 /\ kw.S # NoneVal /\ kw.S # 0

\* if self.kwargs["T"] and self.kwargs["P"] and self.kwargs["S"] is not None
Complete(kw) == kw.T # 0 /\ kw.P # 0 /\ kw.S # NoneVal

NoRun ==
    [ran |-> FALSE, exc |-> 0, invoked |-> <<>>, loc |-> NoDicts,
     over |-> FALSE]

LoopIdle ==
    /\ loop = "none"
    /\ n = 0
    /\ acc = Acc0
    /\ poly = EmptyDict
    /\ pt = [tau |-> 0, pi |-> 0, X |-> 0, i |-> 0, j |-> 0, k |-> 0]

\* The instance after self.kwargs = SeaWater.kwargs.copy(), before the
\* constructor's own __call__.
Init ==
    /\ kwargs = [T |-> 0, P |-> 0, S |-> NoneVal, fast |-> FALSE]
    /\ status = 0
    /\ msg = "Undefined"
    /\ attr = EmptyDict
    /\ supplied = {}
    /\ last = NoRun
    /\ LoopIdle

__call__(kw) ==
    /\ kwargs' = Update(kwargs, kw)
    /\ supplied' = supplied \cup DOMAIN kw
    /\ IF Complete(kwargs')
       THEN \E r \in {Outcome(kwargs')} :
               /\ status' = 1
               /\ attr' = Update2(attr, r.attr)
               /\ msg' = IF r.exc = 0 THEN "" ELSE msg
               /\ last' = [ran |-> TRUE, exc |-> r.exc,
                           invoked |-> r.invoked, loc |-> r.loc,
                           over |-> attr # EmptyDict]
       ELSE /\ UNCHANGED <<status, msg, attr>>
            /\ last' = NoRun
    /\ UNCHANGED <<loop, n, acc, poly, pt>>

Next ==
    \E t \in Opt(TIn), p \in Opt(PIn), s \in Opt(SIn), f \in Opt({0, 1}) :
        __call__(Kw(t, p, s, f))

Spec == Init /\ [][Next]_vars


----------------------------------------------------------------------------
(* Properties of the instance *)

Required == {"T", "P", "S"}
DerivedNames ==
    {"rho", "v", "s", "cp", "h", "u", "a", "alfa", "betas", "kt", "ks", "w"}
SalinityNames == {"mu", "muw", "mus", "osm", "haline"}
ZeroSet == [k \in Keys |-> 0]

\* The latest call ran calculo and calculo returned.
Returned == last.ran /\ last.exc = 0

\* The latest call ran calculo as far as the end of the summing loop.
Summed == last.ran /\ DOMAIN last.loc.prop = Keys

\* C1: calculo runs in a call exactly when T, P and S have all been supplied
\* by then (S = 0 counts); while one is missing nothing is raised, status is
\* 0, msg is "Undefined" and no attribute has been set.
C1_RunsIffSupplied ==
    /\ last.ran <=> Required \subseteq supplied
    /\ ~(Required \subseteq supplied) =>
          /\ last.exc = 0
          /\ status = 0
          /\ msg = "Undefined"
          /\ attr = EmptyDict

\* C1 (case reached): calculo has run on a zero salinity, and returned.
C1_Witness == Returned /\ kwargs.S = 0 /\ "rho" \in DOMAIN attr

\* C2: at S = 0 _saline runs over no table entry and returns the eight keys,
\* all zero; calculo then sets mu, muw, mus, osm and haline to None and does
\* not fail on the division by m; at S # 0 it sets the five to values.
C2_ZeroSalinity ==
    /\ SalineEntries(0) = 0
    /\ \A T \in TIn, P \in PIn : _saline(T, P, 0) = ZeroSet
    /\ (last.ran /\ kwargs.S = 0) =>
          /\ last.exc # 173
          /\ "_saline" \in {last.invoked[i] : i \in DOMAIN last.invoked} =>
                last.loc.psRet = ZeroSet
    /\ (Returned /\ kwargs.S = 0) =>
          \A x \in SalinityNames : x \in DOMAIN attr /\ attr[x] = NoneVal
    /\ (Returned /\ kwargs.S # 0) =>
          \A x \in SalinityNames :
              x \in DOMAIN attr /\ attr[x] # NoneVal /\ attr[x] # Err

\* C2 (case reached): a computation at S = 0 has returned, over the results
\* of an earlier one, and the five outputs are None.
C2_Witness ==
    /\ Returned
    /\ kwargs.S = 0
    /\ last.over
    /\ last.loc.psRet = ZeroSet
    /\ attr["osm"] = NoneVal

\* C3: the fast series is the pure-water strategy exactly when the fast flag
\* is set and T <= 313.15, the equation of state otherwise; one of the two is
\* called per computation, and above the threshold the flag changes nothing.
C3_Strategy ==
    last.ran =>
       /\ Len(last.invoked) >= 1
       /\ last.invoked[1] =
             (IF kwargs.fast /\ kwargs.T <= 31315 THEN "_waterSupp"
              ELSE "_water")
       /\ Cardinality({ i \in DOMAIN last.invoked :
                           last.invoked[i] \in {"_water", "_waterSupp"} }) = 1
       /\ (kwargs.fast /\ kwargs.T > 31315) =>
             LET o == Outcome([kwargs EXCEPT !.fast = FALSE])
             IN  last.exc = o.exc /\ last.loc = o.loc

\* C3 (case reached): fast mode was asked for above the threshold and the
\* equation of state was used, without an error.
C3_Witness ==
    /\ Returned
    /\ kwargs.fast
    /\ kwargs.T > 31315
    /\ last.invoked = <<"_water", "_saline">>

\* C4: what the pure-water strategy and _saline returned have the eight keys,
\* gs = gsp = 0 in the pure-water set; prop has the eight keys, each the sum
\* of the two; the summation leaves pw and ps as they were returned.
C4_Combined ==
    Summed =>
       /\ DOMAIN last.loc.pwRet = Keys
       /\ DOMAIN last.loc.psRet = Keys
       /\ last.loc.pwRet["gs"] = 0
       /\ last.loc.pwRet["gsp"] = 0
       /\ \A k \in Keys :
             last.loc.prop[k] = Add(last.loc.pwRet[k], last.loc.psRet[k])
       /\ last.loc.pw = last.loc.pwRet
       /\ last.loc.ps = last.loc.psRet

\* C4 (case reached): the fast series and a non-zero saline set were summed.
C4_Witness ==
    /\ Summed
    /\ last.invoked = <<"_waterSupp", "_saline">>
    /\ last.loc.psRet["g"] # 0
    /\ last.loc.prop["g"] # last.loc.pwRet["g"]

\* C5 (as the specification states it): after a computation the instance
\* exposes T, P and S, each equal to the input supplied.
C5_EchoesInputs ==
    Returned =>
       /\ Required \subseteq DOMAIN attr
       /\ attr["T"] = kwargs.T
       /\ attr["P"] = kwargs.P
       /\ attr["S"] = kwargs.S

\* The instance holds the results of a computation that returned.
HasResult == "haline" \in DOMAIN attr

Den(p) ==
    Sub(Pow(p["gtp"], 2),
        Mul(Mul(Mul(p["gtt"], Num(1000)), p["gpp"]), Dec(1, 6)))

Singular(p) == p["gp"] = 0 \/ p["gtt"] = 0 \/ Den(p) = 0

\* The first statement of calculo that divides by a zero of p.
SingularLine(p) ==
    IF p["gp"] = 0 THEN 154 ELSE IF p["gtt"] = 0 THEN 162 ELSE 166

\* C7, in every state: no attribute is infinite, and a zero denominator ends
\* calculo in the exception of the first division by it.
C7_Raises ==
    /\ \A x \in DOMAIN attr : attr[x] # Inf
    /\ (Summed /\ Singular(last.loc.prop)) =>
          /\ last.exc = SingularLine(last.loc.prop)
          /\ \A x \in DOMAIN attr : attr[x] # Err

\* C7: when gp, gtt or the sound-speed denominator of the combined set is
\* zero, calculo ends in the exception of the first division by it and the
\* call ends in that exception; no attribute is ever infinite or the value of
\* a failed expression; and a call that repeats the stored inputs ends in the
\* same exception.
C7_Singular ==
    /\ []C7_Raises
    /\ [][(last.ran /\ last.exc # 0 /\ kwargs' = kwargs) =>
             (last'.ran /\ last'.exc = last.exc)]_vars

\* C7 (case reached): the combined gp is zero and calculo raised at the
\* division by it, on a call that repeated an instance's failed inputs.
C7_Witness ==
    /\ Summed
    /\ last.loc.prop["gp"] = 0
    /\ last.exc = 154
    /\ last.over

\* C10 (as the claim states it): status = 1 goes with msg = "" and every
\* derived property assigned, status = 0 with msg = "Undefined" and none.
C10_StatusConsistent ==
    /\ status = 1 =>
          /\ msg = ""
          /\ (DerivedNames \cup SalinityNames) \subseteq DOMAIN attr
    /\ status = 0 =>
          /\ msg = "Undefined"
          /\ (DerivedNames \cup SalinityNames) \cap DOMAIN attr = {}

----------------------------------------------------------------------------
(* The series loops on arbitrary tables *)

MaxLen == 2
MaxExp == 2

\* The exponents and coefficients of an entry, the leading exponents of a
\* saline entry, and the values of tau and pi (0 among them) and of X.
Exps == 0..MaxExp
Coeffs == {Num(3), Neg(Dec(5, 1))}
Leading == 1..2
Points == {0, Num(2)}
XPoints == {Num(2)}

Instance0 ==
    /\ kwargs = [T |-> 0, P |-> 0, S |-> NoneVal, fast |-> FALSE]
    /\ status = 0
    /\ msg = "Undefined"
    /\ attr = EmptyDict
    /\ supplied = {}
    /\ last = NoRun

\* The polynomial sum c tau^j pi^k as the map <<j, k>> -> c, and the same
\* after c tau^j pi^k is added to it.
PolyAdd(q, j, k, c) ==
    [e \in (DOMAIN q) \cup {<<j, k>>} |->
        IF e = <<j, k>>
        THEN Add(IF e \in DOMAIN q THEN q[e] ELSE 0, c)
        ELSE q[e]]

\* j (j-1) ... (j-a+1)
RECURSIVE Falling(_, _)
Falling(j, a) == IF a = 0 THEN 1 ELSE j * Falling(j - 1, a - 1)

\* The derivative of c tau^j pi^k, a times by tau and b times by pi, at
\* (tau, pi): zero when the exponent is below the order.
DTerm(c, j, k, a, b, tau, pi) ==
    IF j < a \/ k < b THEN 0
    ELSE Mul(Mul(Mul(c, Num(Falling(j, a) * Falling(k, b))),
                 FPow(tau, j - a)), FPow(pi, k - b))

RECURSIVE SumOver(_, _, _, _, _, _)
SumOver(q, es, a, b, tau, pi) ==
    IF es = {} THEN 0
    ELSE LET e == CHOOSE x \in es : TRUE
         IN  Add(DTerm(q[e], e[1], e[2], a, b, tau, pi),
                 SumOver(q, es \ {e}, a, b, tau, pi))

\* The formal partial derivative of q, term by term, at (tau, pi).
D(q, a, b, tau, pi) == SumOver(q, DOMAIN q, a, b, tau, pi)

\* The factor a saline entry puts before tau^j pi^k in g.
SalineFactor(i, gi, X) ==
    IF i = 1 THEN Mul(Mul(gi, Pow(X, 2)), Log(X)) ELSE Mul(gi, Pow(X, i))

InitSeries ==
    /\ Instance0
    /\ loop \in {"water", "saline"}
    /\ n = 0
    /\ acc = Acc0
    /\ poly = EmptyDict
    /\ pt \in [tau : Points, pi : Points,
               X : IF loop = "saline" THEN XPoints ELSE {0},
               i : {0}, j : {0}, k : {0}]

\* One pass of "for j, k, gi in zip(J, K, G)" of _waterSupp.
WaterStep(j, k, gi) ==
    /\ loop = "water"
    /\ n < MaxLen
    /\ n' = n + 1
    /\ acc' = WaterSuppTerm(acc, j, k, gi, pt.tau, pt.pi)
    /\ poly' = PolyAdd(poly, j, k, gi)
    /\ pt' = [pt EXCEPT !.j = j, !.k = k]
    /\ UNCHANGED <<kwargs, status, msg, attr, supplied, last, loop>>

\* One pass of "for i, j, k, gi in zip(I, J, K, G)" of _saline; an entry
\* with i = 1 has k = 0 and j <= 1, as in the table of the program.
SalineStep(i, j, k, gi) ==
    /\ loop = "saline"
    /\ n < MaxLen
    /\ i = 1 => (k = 0 /\ j <= 1)
    /\ n' = n + 1
    /\ acc' = SalineTerm(acc, i, j, k, gi, pt.X, pt.tau, pt.pi)
    /\ poly' = PolyAdd(poly, j, k, SalineFactor(i, gi, pt.X))
    /\ pt' = [pt EXCEPT !.i = i, !.j = j, !.k = k]
    /\ UNCHANGED <<kwargs, status, msg, attr, supplied, last, loop>>

NextSeries ==
    \/ \E j \in Exps, k \in Exps, gi \in Coeffs : WaterStep(j, k, gi)
    \/ \E i \in Leading, j \in Exps, k \in Exps, gi \in Coeffs :
          SalineStep(i, j, k, gi)

SpecSeries == InitSeries /\ [][NextSeries]_vars

\* The accumulators the entry (j, k) adds to, by the gates of the loop.
Gates(j, k) ==
    {"g"} \cup (IF j >= 1 THEN {"gt"} ELSE {})
          \cup (IF k >= 1 THEN {"gp"} ELSE {})
          \cup (IF j >= 2 THEN {"gtt"} ELSE {})
          \cup (IF j >= 1 /\ k >= 1 THEN {"gtp"} ELSE {})
          \cup (IF k >= 2 THEN {"gpp"} ELSE {})

Six == {"g", "gt", "gp", "gtt", "gtp", "gpp"}

----------------------------------------------------------------------------
(* The series loops on the tables of the program *)

InitTables ==
    /\ Instance0
    /\ loop \in {"waterTable", "salineTable"}
    /\ n = 0
    /\ acc = Acc0
    /\ poly = EmptyDict
    /\ pt \in [tau : Points, pi : Points,
               X : IF loop = "salineTable" THEN 1..2 ELSE {0},
               i : {0}, j : {0}, k : {0}]

\* The next pass of the loop of _waterSupp over zip(J, K, G).
WaterEntry ==
    /\ loop = "waterTable"
    /\ n < WaterLen
    /\ n' = n + 1
    /\ acc' = WaterSuppTerm(acc, WaterJ[n + 1], WaterK[n + 1], WaterG[n + 1],
                            pt.tau, pt.pi)
    /\ pt' = [pt EXCEPT !.j = WaterJ[n + 1], !.k = WaterK[n + 1]]
    /\ UNCHANGED <<kwargs, status, msg, attr, supplied, last, loop, poly>>

\* The next pass of the loop of _saline over zip(I, J, K, G).
SalineEntry ==
    /\ loop = "salineTable"
    /\ n < SalineLen
    /\ n' = n + 1
    /\ acc' = SalineTerm(acc, SalineI[n + 1], SalineJ[n + 1], SalineK[n + 1],
                         SalineG[n + 1], pt.X, pt.tau, pt.pi)
    /\ pt' = [pt EXCEPT !.i = SalineI[n + 1], !.j = SalineJ[n + 1],
                        !.k = SalineK[n + 1]]
    /\ UNCHANGED <<kwargs, status, msg, attr, supplied, last, loop, poly>>

NextTables == WaterEntry \/ SalineEntry

SpecTables == InitTables /\ [][NextTables]_vars

\* No two entries of a table have the same exponents.
WaterDistinct ==
    \A a, b \in 1..Len(WaterJ) :
        (WaterJ[a] = WaterJ[b] /\ WaterK[a] = WaterK[b]) => a = b
SalineDistinct ==
    \A a, b \in 1..Len(SalineI) :
        (SalineI[a] = SalineI[b] /\ SalineJ[a] = SalineJ[b]
            /\ SalineK[a] = SalineK[b]) => a = b

\* C9: J, K and G of _waterSupp have 41 entries each and I, J, K and G of
\* _saline 64 each; no exponent tuple is in a table twice; a saline entry
\* with i = 1 has k = 0 and j <= 1; so an entry with i = 1 adds to g, gt and
\* gs alone, never to gp, gsp, gtt, gtp or gpp.
C9_Tables ==
    /\ Len(WaterJ) = 41 /\ Len(WaterK) = 41 /\ Len(WaterG) = 41
    /\ WaterLen = 41
    /\ Len(SalineI) = 64 /\ Len(SalineJ) = 64
    /\ Len(SalineK) = 64 /\ Len(SalineG) = 64
    /\ SalineLen = 64
    /\ WaterDistinct
    /\ SalineDistinct
    /\ \A e \in 1..Len(SalineI) :
          SalineI[e] = 1 => (SalineK[e] = 0 /\ SalineJ[e] <= 1)
    /\ (loop = "salineTable" /\ n >= 1 /\ pt.i = 1) =>
          /\ acc.hits \subseteq {"g", "gt", "gs"}
          /\ {"g", "gs"} \subseteq acc.hits

\* C9 (case reached): the loop of _saline has taken the entry with i = 1 and
\* j = 1, which adds to gt.
C9_Witness ==
    /\ loop = "salineTable"
    /\ pt.i = 1
    /\ pt.j = 1
    /\ n = 8
    /\ acc.hits = {"g", "gt", "gs"}
====
